---- MODULE Spec2Model ----
(***************************************************************************)
(* arcanum (src/src/main.rs): recipient resolution over the cached config  *)
(* tree and the encrypted-file lifecycle commands of main().               *)
(*                                                                         *)
(* Conventions of the model                                                *)
(*   Option<T>      None is <<>>, Some(x) is <<x>>.                        *)
(*   HashMap<_, V>  the sequence of its values in the order the map        *)
(*                  iterates them (the code never reads the keys); every   *)
(*                  order of the same values is a different tree.          *)
(*   Vec<u8>        a sequence of bytes.                                   *)
(*   PathBuf        a natural number, its rank in the order of PathBuf.    *)
(*   a file         <<>> when it does not exist, <<content>> when it does, *)
(*                  for plaintext files; a record with a kind for the      *)
(*                  ciphertext files.                                      *)
(*   process end    pc = "done" with exit = 0 (main returned), 1           *)
(*                  (std::process::exit(1)) or 101 (a panic).              *)
(***************************************************************************)
EXTENDS Naturals, Sequences, FiniteSets

VARIABLES
    cache,                    \* the CacheFile main() loaded
    disk,                     \* ciphertext path -> the file at that path
    disk0,                    \* disk when the process started
    plainFile,                \* the file at the plaintext path of encrypt/decrypt
    plainFile0,               \* plainFile when the process started
    stdout,                   \* bytes written to standard output
    pc,                       \* position of the process
    cmd,                      \* cli.command
    recipients,               \* let recipients
    original_plaintext_data,  \* let original_plaintext_data / plaintext read first
    plaintext_data,           \* let plaintext_data
    ciphertext_data,          \* let ciphertext_data
    temp,                     \* the temp files of Edit: t and ciphertext_temp
    files_to_rekey,           \* let mut files_to_rekey
    idx,                      \* position of the rekey-all loop in files_to_rekey
    exit,                     \* exit status of the process, "none" while it runs
    encLog,                   \* recipient vectors ciphertext_from_plaintext_buffer was called with
    cache_file,               \* the file at cache_file_path
    cache_file0,              \* cache_file when the process started
    nix_evals,                \* the results of the `nix eval` runs of this process
    session                   \* the locals and temp files of Merge

vars == <<cache, disk, disk0, plainFile, plainFile0, stdout, pc, cmd, recipients,
          original_plaintext_data, plaintext_data, ciphertext_data, temp,
          files_to_rekey, idx, exit, encLog, cache_file, cache_file0, nix_evals,
          session>>

--------------------------------------------------------------------------
(* Bounds and value sets *)

NPaths == 2
Paths == 1..NPaths

\* Recipient identifier strings, listed in the order of String (byte order).
RecipientOrder == <<"age1abc", "age1def", "ssh-rsa AAAA">>
RecipientIds == {RecipientOrder[i] : i \in 1..Len(RecipientOrder)}
\* r.starts_with("age1")
StartsWithAge1(r) == r \in {"age1abc", "age1def"}
Rank(r) == CHOOSE i \in 1..Len(RecipientOrder) : RecipientOrder[i] = r
StrLess(a, b) == Rank(a) < Rank(b)

None == <<>>
Some(x) == <<x>>
IsNone(o) == Len(o) = 0
Unwrap(o) == o[1]

Range(s) == {s[i] : i \in 1..Len(s)}

--------------------------------------------------------------------------
(* Config tree model: ArcanumFile, ArcanumConfig, CacheFile *)

ArcanumFile(src, rcpts) == [source |-> src, recipients |-> rcpts]
ArcanumConfig(fs, admins) == [files |-> fs, admin_recipients |-> admins]
CacheFile(fl, nx, hm, ds) ==
    [flake |-> fl, nixos |-> nx, home_manager |-> hm, dev_shells |-> ds]

--------------------------------------------------------------------------
(* BTreeSet<String>: a strictly increasing sequence *)

BTreeInsert(set, r) ==
    IF r \in Range(set) THEN set
    ELSE LET k == Cardinality({i \in 1..Len(set) : StrLess(set[i], r)})
         IN SubSeq(set, 1, k) \o <<r>> \o SubSeq(set, k + 1, Len(set))

RECURSIVE BTreeExtend(_, _)
BTreeExtend(set, vec) ==
    IF vec = <<>> THEN set
    ELSE BTreeExtend(BTreeInsert(set, Head(vec)), Tail(vec))

--------------------------------------------------------------------------
(* CacheFile::recipients_for_file *)

\* if source == file.source { recipients.extend(file.recipients);
\*                            recipients.extend(config.admin_recipients) }
MatchFile(set, file, config, source) ==
    IF source = file.source
    THEN BTreeExtend(BTreeExtend(set, file.recipients), config.admin_recipients)
    ELSE set

\* for (_, file) in &config.files { ... }
RECURSIVE ForFiles(_, _, _, _)
ForFiles(set, files, config, source) ==
    IF files = <<>> THEN set
    ELSE ForFiles(MatchFile(set, Head(files), config, source), Tail(files), config, source)

\* for (_, config) in map { for (_, file) in &config.files { ... } }
RECURSIVE ForConfigs(_, _, _)
ForConfigs(set, configs, source) ==
    IF configs = <<>> THEN set
    ELSE ForConfigs(ForFiles(set, Head(configs).files, Head(configs), source),
                    Tail(configs), source)

\* for (_, config) in map { for (_, system) in config { ... } }
RECURSIVE ForNested(_, _, _)
ForNested(set, outer, source) ==
    IF outer = <<>> THEN set
    ELSE ForNested(ForConfigs(set, Head(outer), source), Tail(outer), source)

\* Box::new(age::x25519::Recipient::from_str(r)) or age::ssh::Recipient
Boxed(r) == [kind |-> IF StartsWithAge1(r) THEN "x25519" ELSE "ssh", key |-> r]
BoxAll(set) == [i \in 1..Len(set) |-> Boxed(set[i])]
Keys(boxed) == [i \in 1..Len(boxed) |-> boxed[i].key]

\* self.X.as_ref().unwrap() panics on None
UnwrapPanics(self) ==
    \/ IsNone(self.flake)
    \/ IsNone(self.nixos)
    \/ IsNone(self.home_manager)
    \/ IsNone(self.dev_shells)

\* The BTreeSet the four loops build, in the order the code runs them.
CollectRecipients(self, source) ==
    LET flake == Unwrap(self.flake)
        s1 == ForFiles(<<>>, flake.files, flake, source)
        s2 == ForConfigs(s1, Unwrap(self.nixos), source)
        s3 == ForNested(s2, Unwrap(self.home_manager), source)
        s4 == ForNested(s3, Unwrap(self.dev_shells), source)
    IN s4

\* The call's outcome: panicked, or the boxed recipients returned.
recipients_for_file(self, source) ==
    IF UnwrapPanics(self)
    THEN [panicked |-> TRUE, val |-> <<>>]
    ELSE [panicked |-> FALSE, val |-> BoxAll(CollectRecipients(self, source))]

--------------------------------------------------------------------------
(* Cipher Service (the age crate) as the two wrappers use it *)

\* A ciphertext file: absent, an age file holding pt for the recipients in
\* `to`, or bytes that are no age file.
Absent == [kind |-> "absent", pt |-> <<>>, to |-> {}]
Garbage == [kind |-> "garbage", pt |-> <<>>, to |-> {}]
Age(pt, to) == [kind |-> "age", pt |-> pt, to |-> to]

\* identity_files(&cli): the identity files that exist; an identity is named
\* by the recipient identifier it can decrypt for.
Identities == {"ssh-rsa AAAA"}

\* Decryptor::decrypt succeeds when one identity matches a recipient stanza.
CanDecrypt(file, identities) == file.kind = "age" /\ file.to \cap identities # {}

\* Faulty variant: the failed decryption is swallowed and an empty plaintext returned.
plaintext_source_swallowing(file, identities) ==
    IF file.kind = "absent" THEN [kind |-> "ok", data |-> <<>>]
    ELSE IF file.kind # "age" THEN [kind |-> "panic", data |-> <<>>]
    ELSE IF ~CanDecrypt(file, identities) THEN [kind |-> "ok", data |-> <<>>]
    ELSE [kind |-> "ok", data |-> file.pt]

\* plaintext_from_ciphertext_source: "ok" with the bytes returned, "exit1"
\* (std::process::exit(1)) or "panic" (an unwrap on Err).
plaintext_from_ciphertext_source(file, identities) ==
    IF file.kind = "absent" THEN [kind |-> "ok", data |-> <<>>]
    ELSE IF file.kind # "age" THEN [kind |-> "panic", data |-> <<>>]
    ELSE IF ~CanDecrypt(file, identities) THEN [kind |-> "exit1", data |-> <<>>]
    ELSE [kind |-> "ok", data |-> file.pt]

\* Faulty variant: the ciphertext is made for the first recipient only.
ciphertext_for_first_recipient(plaintext, rcpts) ==
    IF rcpts = <<>>
    THEN [panicked |-> TRUE, data |-> Absent]
    ELSE [panicked |-> FALSE, data |-> Age(plaintext, {rcpts[1].key})]

\* ciphertext_from_plaintext_buffer: Encryptor::with_recipients returns Err
\* for no recipients and the unwrap panics.
ciphertext_from_plaintext_buffer(plaintext, rcpts) ==
    IF rcpts = <<>>
    THEN [panicked |-> TRUE, data |-> Absent]
    ELSE [panicked |-> FALSE, data |-> Age(plaintext, Range(Keys(rcpts)))]

--------------------------------------------------------------------------
(* Recipient resolution alone: a tree and a path, then the call *)

MineId == "ssh-rsa AAAA"

ResolveEntries ==
    { <<>>,
      <<ArcanumFile(1, <<"age1def">>)>>,
      <<ArcanumFile(2, <<"ssh-rsa AAAA", "age1abc">>), ArcanumFile(1, <<"age1def", "age1def">>)>>,
      <<ArcanumFile(1, <<"age1def">>), ArcanumFile(1, <<"age1abc">>)>>,
      <<ArcanumFile(1, <<"age1abc">>), ArcanumFile(1, <<"age1def">>)>>,
      <<ArcanumFile(1, <<>>)>> }
ResolveAdmins == { <<>>, <<"age1abc">> }
ResolveScopes ==
    { ArcanumConfig(fs, ad) : fs \in ResolveEntries, ad \in ResolveAdmins }
ResolveMaps == {None, Some(<<>>)} \cup { Some(<<s>>) : s \in ResolveScopes }
ResolveNested == {None, Some(<<>>)} \cup { Some(<< <<s>> >>) : s \in ResolveScopes }
ResolveTrees ==
    { CacheFile(fl, nx, hm, ds) :
        fl \in {None} \cup { Some(s) : s \in ResolveScopes },
        nx \in ResolveMaps \cup { Some(<<s, t>>) : s \in ResolveScopes, t \in ResolveScopes },
        hm \in ResolveNested,
        ds \in {None, Some(<<>>)} \cup
               { Some(<< <<ArcanumConfig(<<ArcanumFile(2, <<"age1def">>)>>, <<"ssh-rsa AAAA">>)>> >>) } }

NoCmd == [op |-> "none", ciphertext |-> 0, plaintext |-> "none"]
NoTemp == [t |-> <<>>, ciphertext_temp |-> <<>>]

\* The bytes of a cache file or of the evaluator's standard output: JSON that
\* deserializes to a CacheFile (tree), laid out in one of several ways (pad)
\* that the parser does not tell apart; text that is no CacheFile; bytes that
\* are not UTF-8.
NoTree == CacheFile(None, None, None, None)
JsonDoc(tree, pad) == [kind |-> "json", tree |-> tree, pad |-> pad]
InvalidDoc == [kind |-> "invalid", tree |-> NoTree, pad |-> 0]
NonUtf8Doc == [kind |-> "nonutf8", tree |-> NoTree, pad |-> 0]

\* Merge before it has run: no conflict state read, no TempFile created.
NoSession ==
    [in_merge |-> FALSE, in_rebase |-> FALSE,
     ours_temp |-> <<>>, theirs_temp |-> <<>>,
     ours_plaintext |-> <<>>, theirs_plaintext |-> <<>>,
     ours_plain_temp |-> <<>>, theirs_plain_temp |-> <<>>,
     merged_temp |-> <<>>, merged_plaintext |-> <<>>,
     ours_output |-> [status |-> "none", stdout |-> <<>>],
     theirs_output |-> [status |-> "none", stdout |-> <<>>],
     ours_alt_output |-> [status |-> "none", stdout |-> <<>>],
     theirs_alt_output |-> [status |-> "none", stdout |-> <<>>],
     merge_result |-> [status |-> "none", stdout |-> <<>>],
     calls |-> <<>>, diffs |-> <<>>]

InitResolve ==
    /\ cache \in ResolveTrees
    /\ cmd \in { [op |-> "resolve", ciphertext |-> p, plaintext |-> "none"] : p \in Paths }
    /\ pc = "resolve"
    /\ disk = [p \in Paths |-> Absent]
    /\ disk0 = disk
    /\ plainFile = <<>>
    /\ plainFile0 = <<>>
    /\ stdout = <<>>
    /\ recipients = <<>>
    /\ original_plaintext_data = <<>>
    /\ plaintext_data = <<>>
    /\ ciphertext_data = Absent
    /\ temp = NoTemp
    /\ files_to_rekey = <<>>
    /\ idx = 0
    /\ exit = "none"
    /\ encLog = <<>>
    /\ cache_file = <<JsonDoc(cache, 0)>>
    /\ cache_file0 = cache_file
    /\ nix_evals = <<>>
    /\ session = NoSession

\* let recipients = cache.recipients_for_file(ciphertext);
ResolveCall ==
    /\ pc = "resolve"
    /\ LET r == recipients_for_file(cache, cmd.ciphertext)
       IN IF r.panicked
          THEN pc' = "done" /\ exit' = 101 /\ recipients' = recipients
          ELSE pc' = "resolved" /\ exit' = exit /\ recipients' = r.val
    /\ UNCHANGED <<cache_file, cache_file0, nix_evals, session,
                   cache, disk, disk0, plainFile, plainFile0, stdout, cmd,
                   original_plaintext_data, plaintext_data, ciphertext_data, temp,
                   files_to_rekey, idx, encLog>>

NextResolve == ResolveCall

SpecResolve == InitResolve /\ [][NextResolve]_vars

--------------------------------------------------------------------------
(* The lifecycle commands of main(): the state a process starts in *)

Plaintexts == { <<>>, <<"a">>, <<"b">> }
DiskFiles ==
    { Absent, Garbage, Age(<<"a">>, {MineId}), Age(<<"a">>, {"age1def"}),
      Age(<<>>, {MineId}) }
PlainFiles == { <<>>, << <<"b">> >> }

\* How a tree declares a path: in no scope; in the nixos scope with no
\* recipients at all; in the flake scope (to the local identity) and in the
\* dev shell scope (whose admin is age1def); in the dev shell scope only.
Decls == {"undeclared", "bare", "shared", "other"}
PathSeq == [i \in 1..NPaths |-> i]
EntriesFor(d, kinds, rcpts) ==
    LET Declared(p) == d[p] \in kinds
        ps == SelectSeq(PathSeq, Declared)
    IN [i \in 1..Len(ps) |-> ArcanumFile(ps[i], rcpts)]
TreeFor(d, hm) ==
    CacheFile(Some(ArcanumConfig(EntriesFor(d, {"shared"}, <<MineId>>), <<>>)),
              Some(<<ArcanumConfig(EntriesFor(d, {"bare"}, <<>>), <<>>)>>),
              hm,
              Some(<< <<ArcanumConfig(EntriesFor(d, {"shared", "other"}, <<>>),
                                      <<"age1def">>)>> >>))
LifecycleTrees == { TreeFor(d, hm) : d \in [Paths -> Decls], hm \in {None, Some(<<>>)} }

Init ==
    /\ cache \in LifecycleTrees
    /\ disk \in [Paths -> DiskFiles]
    /\ disk0 = disk
    /\ plainFile \in PlainFiles
    /\ plainFile0 = plainFile
    /\ stdout = <<>>
    /\ pc = "main"
    /\ cmd = NoCmd
    /\ recipients = <<>>
    /\ original_plaintext_data = <<>>
    /\ plaintext_data = <<>>
    /\ ciphertext_data = Absent
    /\ temp = NoTemp
    /\ files_to_rekey = <<>>
    /\ idx = 0
    /\ exit = "none"
    /\ encLog = <<>>
    /\ cache_file = <<JsonDoc(cache, 0)>>
    /\ cache_file0 = cache_file
    /\ nix_evals = <<>>
    /\ session = NoSession

\* The exit status a decryption outcome that is not "ok" ends the process with.
ExitOf(out) == IF out.kind = "exit1" THEN 1 ELSE 101

\* The process ends: the TempFile values are dropped when main returns or a
\* panic unwinds, and are not when std::process::exit ends the process.
End(code) ==
    /\ pc' = "done"
    /\ exit' = code
    /\ temp' = IF code = 1 THEN temp ELSE NoTemp

--------------------------------------------------------------------------
(* Commands::Encrypt *)

Encrypt ==
    /\ pc = "main"
    /\ \E c \in Paths, src \in {"-", "file"}, buffer \in Plaintexts :
          /\ src = "file" => buffer = <<>>
          /\ cmd' = [op |-> "encrypt", ciphertext |-> c, plaintext |-> src]
          /\ LET readable == src = "-" \/ plainFile # <<>>
                 data == IF src = "-" THEN buffer
                         ELSE IF plainFile # <<>> THEN plainFile[1] ELSE <<>>
                 r == recipients_for_file(cache, c)
                 e == ciphertext_from_plaintext_buffer(data, r.val)
             IN /\ original_plaintext_data' = data
                /\ IF ~readable
                   THEN End(0) /\ UNCHANGED <<disk, recipients, encLog, ciphertext_data>>
                   ELSE IF r.panicked
                   THEN End(101) /\ UNCHANGED <<disk, recipients, encLog, ciphertext_data>>
                   ELSE IF r.val = <<>>
                   THEN End(0) /\ recipients' = r.val
                        /\ UNCHANGED <<disk, encLog, ciphertext_data>>
                   ELSE /\ recipients' = r.val
                        /\ encLog' = Append(encLog, Keys(r.val))
                        /\ IF e.panicked
                           THEN End(101) /\ UNCHANGED <<disk, ciphertext_data>>
                           ELSE /\ End(0)
                                /\ ciphertext_data' = e.data
                                /\ disk' = [disk EXCEPT ![c] = e.data]
    /\ UNCHANGED <<cache_file, cache_file0, nix_evals, session,
                   cache, disk0, plainFile, plainFile0, stdout, plaintext_data,
                   files_to_rekey, idx>>

--------------------------------------------------------------------------
(* Commands::Decrypt *)

\* Faulty variant: the empty plaintext is written like any other.
DecryptNeverSuppressed(data) == FALSE

\* if plaintext_data.is_empty() { return; }
DecryptSuppressed(data) == data = <<>>

Decrypt ==
    /\ pc = "main"
    /\ \E c \in Paths, dst \in {"-", "file"} :
          /\ cmd' = [op |-> "decrypt", ciphertext |-> c, plaintext |-> dst]
          /\ LET out == plaintext_from_ciphertext_source(disk[c], Identities)
             IN /\ plaintext_data' = out.data
                /\ IF out.kind # "ok"
                   THEN End(ExitOf(out)) /\ UNCHANGED <<plainFile, stdout>>
                   ELSE /\ End(0)
                        /\ IF dst = "-"
                           THEN stdout' = stdout \o out.data /\ UNCHANGED plainFile
                           ELSE IF DecryptSuppressed(out.data)
                           THEN UNCHANGED <<plainFile, stdout>>
                           ELSE plainFile' = <<out.data>> /\ UNCHANGED stdout
    /\ UNCHANGED <<cache_file, cache_file0, nix_evals, session,
                   cache, disk, disk0, plainFile0, recipients, original_plaintext_data,
                   ciphertext_data, files_to_rekey, idx, encLog>>

--------------------------------------------------------------------------
(* Commands::Rekey, one file *)

RekeyOne ==
    /\ pc = "main"
    /\ \E c \in Paths :
          /\ cmd' = [op |-> "rekey", ciphertext |-> c, plaintext |-> "none"]
          /\ LET out == plaintext_from_ciphertext_source(disk[c], Identities)
                 r == recipients_for_file(cache, c)
                 e == ciphertext_from_plaintext_buffer(out.data, r.val)
             IN /\ plaintext_data' = out.data
                /\ IF out.kind # "ok"
                   THEN End(ExitOf(out)) /\ UNCHANGED <<disk, recipients, encLog, ciphertext_data>>
                   ELSE IF r.panicked
                   THEN End(101) /\ UNCHANGED <<disk, recipients, encLog, ciphertext_data>>
                   ELSE /\ recipients' = r.val
                        /\ encLog' = Append(encLog, Keys(r.val))
                        /\ IF e.panicked
                           THEN End(101) /\ UNCHANGED <<disk, ciphertext_data>>
                           ELSE /\ End(0)
                                /\ ciphertext_data' = e.data
                                /\ disk' = [disk EXCEPT ![c] = e.data]
    /\ UNCHANGED <<cache_file, cache_file0, nix_evals, session,
                   cache, disk0, plainFile, plainFile0, stdout, original_plaintext_data,
                   files_to_rekey, idx>>

--------------------------------------------------------------------------
(* Commands::Rekey, all files *)

\* for (_, file) in &config.files { if file.source.exists() { push } }
ExistingSources(files, fsys) ==
    LET Exists(f) == fsys[f.source].kind # "absent"
        fs == SelectSeq(files, Exists)
    IN [i \in 1..Len(fs) |-> fs[i].source]

RECURSIVE SourcesOfConfigs(_, _)
SourcesOfConfigs(configs, fsys) ==
    IF configs = <<>> THEN <<>>
    ELSE ExistingSources(Head(configs).files, fsys) \o SourcesOfConfigs(Tail(configs), fsys)

RECURSIVE SourcesOfNested(_, _)
SourcesOfNested(outer, fsys) ==
    IF outer = <<>> THEN <<>>
    ELSE SourcesOfConfigs(Head(outer), fsys) \o SourcesOfNested(Tail(outer), fsys)

\* The four "if let Some(..)" blocks, in the order of the code.
CollectSources(self, fsys) ==
    (IF IsNone(self.flake) THEN <<>> ELSE ExistingSources(Unwrap(self.flake).files, fsys))
    \o (IF IsNone(self.nixos) THEN <<>> ELSE SourcesOfConfigs(Unwrap(self.nixos), fsys))
    \o (IF IsNone(self.home_manager) THEN <<>>
        ELSE SourcesOfNested(Unwrap(self.home_manager), fsys))
    \o (IF IsNone(self.dev_shells) THEN <<>>
        ELSE SourcesOfNested(Unwrap(self.dev_shells), fsys))

\* files_to_rekey.sort()
RECURSIVE SortPaths(_)
SortPaths(v) ==
    IF v = <<>> THEN <<>>
    ELSE LET rest == SortPaths(Tail(v))
             k == Cardinality({i \in 1..Len(rest) : rest[i] <= Head(v)})
         IN SubSeq(rest, 1, k) \o <<Head(v)>> \o SubSeq(rest, k + 1, Len(rest))

\* Faulty variant: the sorted list is kept as it is.
KeepDuplicates(v) == v

\* files_to_rekey.dedup(): consecutive equal elements collapse to the first
RECURSIVE Dedup(_)
Dedup(v) ==
    IF Len(v) <= 1 THEN v
    ELSE IF v[1] = v[2] THEN Dedup(Tail(v))
    ELSE <<v[1]>> \o Dedup(Tail(v))

RekeyAllCollect ==
    /\ pc = "main"
    /\ cmd' = [op |-> "rekey_all", ciphertext |-> 0, plaintext |-> "none"]
    /\ LET files == Dedup(SortPaths(CollectSources(cache, disk)))
       IN /\ files_to_rekey' = files
          /\ IF files = <<>>
             THEN End(0) /\ idx' = idx
             ELSE pc' = "rekey_loop" /\ idx' = 1 /\ exit' = exit /\ temp' = temp
    /\ UNCHANGED <<cache_file, cache_file0, nix_evals, session,
                   cache, disk, disk0, plainFile, plainFile0, stdout, recipients,
                   original_plaintext_data, plaintext_data, ciphertext_data, encLog>>

\* The loop goes on to the next file, or main returns after the last one.
Advance ==
    IF idx < Len(files_to_rekey)
    THEN pc' = "rekey_loop" /\ idx' = idx + 1 /\ exit' = exit /\ temp' = temp
    ELSE End(0) /\ idx' = idx + 1

\* Faulty variant: the file without recipients ends the run (return for continue).
NoRecipientsReturn == End(0) /\ idx' = idx

\* if recipients.is_empty() { eprintln!(..skipping); continue; }
NoRecipientsSkip == Advance

\* One iteration of "for file_path in files_to_rekey".
RekeyAllIter ==
    /\ pc = "rekey_loop"
    /\ LET file_path == files_to_rekey[idx]
           out == plaintext_from_ciphertext_source(disk[file_path], Identities)
           r == recipients_for_file(cache, file_path)
           e == ciphertext_from_plaintext_buffer(out.data, r.val)
       IN /\ plaintext_data' = out.data
          /\ IF out.kind # "ok"
             THEN End(ExitOf(out)) /\ UNCHANGED <<disk, recipients, encLog, ciphertext_data, idx>>
             ELSE IF r.panicked
             THEN End(101) /\ UNCHANGED <<disk, recipients, encLog, ciphertext_data, idx>>
             ELSE IF r.val = <<>>
             THEN /\ NoRecipientsSkip
                  /\ recipients' = r.val
                  /\ UNCHANGED <<disk, encLog, ciphertext_data>>
             ELSE /\ recipients' = r.val
                  /\ encLog' = Append(encLog, Keys(r.val))
                  /\ IF e.panicked
                     THEN End(101) /\ UNCHANGED <<disk, ciphertext_data, idx>>
                     ELSE /\ Advance
                          /\ ciphertext_data' = e.data
                          /\ disk' = [disk EXCEPT ![file_path] = e.data]
    /\ UNCHANGED <<cache_file, cache_file0, nix_evals, session,
                   cache, disk0, plainFile, plainFile0, stdout, cmd,
                   original_plaintext_data, files_to_rekey>>

--------------------------------------------------------------------------
(* Commands::Edit *)

\* edit_file(..).unwrap(): the editor leaves some bytes in the file, or fails.
EditorFailed == <<"editor failed">>

\* Faulty variant: the comparison with the original plaintext is lost.
PlaintextUnchangedNever(new, original) == FALSE

\* if plaintext_data == original_plaintext_data { ...; return; }
PlaintextUnchanged(new, original) == new = original

EditResolve ==
    /\ pc = "main"
    /\ \E c \in Paths :
          /\ cmd' = [op |-> "edit", ciphertext |-> c, plaintext |-> "none"]
          /\ LET r == recipients_for_file(cache, c)
             IN IF r.panicked
                THEN End(101) /\ recipients' = recipients
                ELSE IF r.val = <<>>
                THEN End(1) /\ recipients' = r.val
                ELSE pc' = "edit_decrypt" /\ recipients' = r.val /\ exit' = exit /\ temp' = temp
    /\ UNCHANGED <<cache_file, cache_file0, nix_evals, session,
                   cache, disk, disk0, plainFile, plainFile0, stdout,
                   original_plaintext_data, plaintext_data, ciphertext_data,
                   files_to_rekey, idx, encLog>>

EditDecrypt ==
    /\ pc = "edit_decrypt"
    /\ LET out == plaintext_from_ciphertext_source(disk[cmd.ciphertext], Identities)
       IN IF out.kind # "ok"
          THEN End(ExitOf(out)) /\ original_plaintext_data' = original_plaintext_data
          ELSE /\ original_plaintext_data' = out.data
               /\ temp' = [temp EXCEPT !.t = <<out.data>>]
               /\ pc' = "edit_editor"
               /\ exit' = exit
    /\ UNCHANGED <<cache_file, cache_file0, nix_evals, session,
                   cache, disk, disk0, plainFile, plainFile0, stdout, cmd, recipients,
                   plaintext_data, ciphertext_data, files_to_rekey, idx, encLog>>

EditEditor ==
    /\ pc = "edit_editor"
    /\ \E edited \in Plaintexts \cup {EditorFailed} :
          IF edited = EditorFailed
          THEN End(101) /\ plaintext_data' = plaintext_data
          ELSE /\ plaintext_data' = edited
               /\ IF edited = <<>> \/ PlaintextUnchanged(edited, original_plaintext_data)
                  THEN End(0)
                  ELSE /\ pc' = "edit_encrypt"
                       /\ exit' = exit
                       /\ temp' = [temp EXCEPT !.t = <<edited>>]
    /\ UNCHANGED <<cache_file, cache_file0, nix_evals, session,
                   cache, disk, disk0, plainFile, plainFile0, stdout, cmd, recipients,
                   original_plaintext_data, ciphertext_data, files_to_rekey, idx, encLog>>

EditEncrypt ==
    /\ pc = "edit_encrypt"
    /\ LET e == ciphertext_from_plaintext_buffer(plaintext_data, recipients)
       IN /\ encLog' = Append(encLog, Keys(recipients))
          /\ IF e.panicked
             THEN End(101) /\ ciphertext_data' = ciphertext_data
             ELSE /\ ciphertext_data' = e.data
                  /\ temp' = [temp EXCEPT !.ciphertext_temp = <<e.data>>]
                  /\ pc' = "edit_verify"
                  /\ exit' = exit
    /\ UNCHANGED <<cache_file, cache_file0, nix_evals, session,
                   cache, disk, disk0, plainFile, plainFile0, stdout, cmd, recipients,
                   original_plaintext_data, plaintext_data, files_to_rekey, idx>>

\* Faulty variant: the new ciphertext is not decrypted again before the write.
EditVerifySkipped ==
    /\ pc = "edit_verify"
    /\ pc' = "edit_write"
    /\ UNCHANGED <<cache_file, cache_file0, nix_evals, session,
                   cache, disk, disk0, plainFile, plainFile0, stdout, cmd, recipients,
                   original_plaintext_data, plaintext_data, ciphertext_data, temp,
                   files_to_rekey, idx, exit, encLog>>

\* plaintext_from_ciphertext_source(ciphertext_temp.path(), identities);
EditVerify ==
    /\ pc = "edit_verify"
    /\ LET out == plaintext_from_ciphertext_source(temp.ciphertext_temp[1], Identities)
       IN IF out.kind # "ok"
          THEN End(ExitOf(out))
          ELSE pc' = "edit_write" /\ exit' = exit /\ temp' = temp
    /\ UNCHANGED <<cache_file, cache_file0, nix_evals, session,
                   cache, disk, disk0, plainFile, plainFile0, stdout, cmd, recipients,
                   original_plaintext_data, plaintext_data, ciphertext_data,
                   files_to_rekey, idx, encLog>>

\* std::fs::write(ciphertext, ciphertext_data).unwrap();
EditWrite ==
    /\ pc = "edit_write"
    /\ disk' = [disk EXCEPT ![cmd.ciphertext] = ciphertext_data]
    /\ End(0)
    /\ UNCHANGED <<cache_file, cache_file0, nix_evals, session,
                   cache, disk0, plainFile, plainFile0, stdout, cmd, recipients,
                   original_plaintext_data, plaintext_data, ciphertext_data,
                   files_to_rekey, idx, encLog>>

--------------------------------------------------------------------------

Next ==
    \/ Encrypt
    \/ Decrypt
    \/ RekeyOne
    \/ RekeyAllCollect
    \/ RekeyAllIter
    \/ EditResolve
    \/ EditDecrypt
    \/ EditEditor
    \/ EditEncrypt
    \/ EditVerify
    \/ EditWrite

Spec == Init /\ [][Next]_vars

--------------------------------------------------------------------------
(* Commands::Merge *)

\* Text is a sequence of tokens: a token is a character, a byte that is not
\* UTF-8 ("0xFF"), the replacement character ("U+FFFD"), or one of the marker
\* and label strings of the conflict document, kept whole.
OpenMarker == "<<<<<<< "
Separator == "======="
CloseMarker == ">>>>>>> "

\* String::from_utf8_lossy: every invalid byte becomes U+FFFD
from_utf8_lossy(bytes) ==
    [i \in 1..Len(bytes) |-> IF bytes[i] = "0xFF" THEN "U+FFFD" ELSE bytes[i]]

\* bytes.ends_with(b"\n")
ends_with_newline(bytes) == Len(bytes) > 0 /\ bytes[Len(bytes)] = "\n"

\* text.contains(pattern), for the patterns the code looks for
contains(text, pattern) == pattern \in Range(text)

\* A ciphertext file git left with conflict markers around both versions.
Conflicted == [kind |-> "conflicted", pt |-> <<>>, to |-> {}]

\* read_to_string succeeded and the content has "<<<<<<< " and ">>>>>>> "
HasConflictMarkers(file) == file.kind = "conflicted"

\* The plaintexts of the two sides.
OursTexts == { <<"a", "\n", "b", "\n">>, <<"k">>, <<>> }
TheirsTexts == { <<"a", "\n", "c", "\n">>, <<"0xFF">>, <<OpenMarker, "x", "\n">> }
OursBlobs == { Age(t, {MineId}) : t \in OursTexts } \cup { Garbage }
TheirsBlobs == { Age(t, {MineId}) : t \in TheirsTexts } \cup { Age(<<"c">>, {"age1def"}) }

\* The result of a git command: it could not be run (Err), it ran and failed,
\* it ran and printed stdout; NotRun is the None of the alternative queries.
GitErr == [status |-> "err", stdout |-> <<>>]
GitFailed == [status |-> "failed", stdout |-> <<>>]
GitOk(out) == [status |-> "ok", stdout |-> <<out>>]
NotRun == [status |-> "none", stdout |-> <<>>]
GitOutputs(outs) == { GitErr, GitFailed } \cup { GitOk(o) : o \in outs }

\* Faulty variant: the alternative query is issued whatever the primary returned.
AltOutputsAlways(primary, outs, may_lack_commit) == GitOutputs(outs)

\* ours_alt_output / theirs_alt_output: None when the primary query succeeded;
\* otherwise the alternative query's result, or None when a rebase left no
\* original-commit file to read the commit from.
AltOutputs(primary, outs, may_lack_commit) ==
    IF primary.status = "ok" THEN { NotRun }
    ELSE GitOutputs(outs) \cup (IF may_lack_commit THEN { NotRun } ELSE {})

\* Faulty variant: a side that no query produced is taken to be empty.
extract_version_or_empty(primary, alt) ==
    IF primary.status = "ok" THEN Some(primary.stdout[1])
    ELSE IF alt.status = "ok" THEN Some(alt.stdout[1])
    ELSE Some(Absent)

\* let ours_ciphertext = match ours_output { ... }: the bytes, or None where
\* the code returns.
extract_version(primary, alt) ==
    IF primary.status = "ok" THEN Some(primary.stdout[1])
    ELSE IF alt.status = "ok" THEN Some(alt.stdout[1])
    ELSE None

OursLabel(in_merge) == IF in_merge THEN "HEAD (ours)" ELSE "Current (ours)"
TheirsLabel(in_merge) == IF in_merge THEN "MERGE_HEAD (theirs)" ELSE "Incoming (theirs)"

\* Faulty variant: a newline is pushed after each side whatever its last byte.
conflict_content_always_newline(in_merge, ours_plaintext, theirs_plaintext) ==
    <<OpenMarker, OursLabel(in_merge), "\n">>
    \o from_utf8_lossy(ours_plaintext) \o <<"\n">>
    \o <<Separator, "\n">>
    \o from_utf8_lossy(theirs_plaintext) \o <<"\n">>
    \o <<CloseMarker, TheirsLabel(in_merge), "\n">>

\* let mut conflict_content = String::new(); ... push_str ...
conflict_content(in_merge, ours_plaintext, theirs_plaintext) ==
    <<OpenMarker, OursLabel(in_merge), "\n">>
    \o from_utf8_lossy(ours_plaintext)
    \o (IF ~ends_with_newline(ours_plaintext) THEN <<"\n">> ELSE <<>>)
    \o <<Separator, "\n">>
    \o from_utf8_lossy(theirs_plaintext)
    \o (IF ~ends_with_newline(theirs_plaintext) THEN <<"\n">> ELSE <<>>)
    \o <<CloseMarker, TheirsLabel(in_merge), "\n">>

\* What the merged file can hold when the editor returns: the document as it
\* was handed over, or one of these.
EditedTexts ==
    { <<>>,
      <<"a", "\n", "c", "\n">>,
      <<"a", "\n", Separator, "\n", "c", "\n">>,
      <<"a", "\n", "c", "\n", CloseMarker, "MERGE_HEAD (theirs)", "\n">> }

\* if merged_plaintext.is_empty() { return; }
\* if merged_content.contains("<<<<<<< ") || merged_content.contains(">>>>>>> ") { return; }
merge_rejected(merged_plaintext) ==
    \/ merged_plaintext = <<>>
    \/ contains(from_utf8_lossy(merged_plaintext), OpenMarker)
    \/ contains(from_utf8_lossy(merged_plaintext), CloseMarker)

\* The TempFile values of Merge are dropped, and their files removed.
Dropped(s) ==
    [s EXCEPT !.ours_temp = <<>>, !.theirs_temp = <<>>, !.ours_plain_temp = <<>>,
              !.theirs_plain_temp = <<>>, !.merged_temp = <<>>]

\* The process ends inside Merge with the locals s.
MergeEnd(code, s) ==
    /\ End(code)
    /\ session' = IF code = 1 THEN s ELSE Dropped(s)

MergeStart ==
    /\ pc = "main"
    /\ \E c \in Paths, within_root \in BOOLEAN :
          /\ cmd' = [op |-> "merge", ciphertext |-> c, plaintext |-> "none"]
          /\ LET r == recipients_for_file(cache, c)
             IN IF r.panicked
                THEN End(101) /\ recipients' = recipients
                ELSE /\ recipients' = r.val
                     /\ IF r.val = <<>> \/ ~HasConflictMarkers(disk[c]) \/ ~within_root
                        THEN End(0)
                        ELSE pc' = "merge_detect" /\ exit' = exit /\ temp' = temp
    /\ UNCHANGED <<cache_file, cache_file0, nix_evals, session,
                   cache, disk, disk0, plainFile, plainFile0, stdout,
                   original_plaintext_data, plaintext_data, ciphertext_data,
                   files_to_rekey, idx, encLog>>

\* Faulty variant: without MERGE_HEAD the command goes on as for a rebase.
in_no_conflict_never(in_merge, in_rebase) == FALSE

\* if !in_merge && !in_rebase { ...; return; }
in_no_conflict(in_merge, in_rebase) == ~in_merge /\ ~in_rebase

MergeDetect ==
    /\ pc = "merge_detect"
    /\ \E merge_head_exists \in BOOLEAN, rebase_exists \in BOOLEAN :
          LET s == [session EXCEPT !.in_merge = merge_head_exists,
                                   !.in_rebase = rebase_exists,
                                   !.calls = Append(@, "exists .git state")]
          IN IF in_no_conflict(s.in_merge, s.in_rebase)
             THEN MergeEnd(0, s)
             ELSE session' = s /\ pc' = "merge_extract" /\ exit' = exit /\ temp' = temp
    /\ UNCHANGED <<cache_file, cache_file0, nix_evals,
                   cache, disk, disk0, plainFile, plainFile0, stdout, cmd, recipients,
                   original_plaintext_data, plaintext_data, ciphertext_data,
                   files_to_rekey, idx, encLog>>

MergeExtract ==
    /\ pc = "merge_extract"
    /\ \E ours_output \in GitOutputs(OursBlobs), theirs_output \in GitOutputs(TheirsBlobs) :
       \E ours_alt_output \in AltOutputs(ours_output, OursBlobs, FALSE),
          theirs_alt_output \in AltOutputs(theirs_output, TheirsBlobs, ~session.in_merge),
          temps_written \in BOOLEAN :
          LET ours_ciphertext == extract_version(ours_output, ours_alt_output)
              theirs_ciphertext == extract_version(theirs_output, theirs_alt_output)
              s == [session EXCEPT
                       !.ours_output = ours_output, !.theirs_output = theirs_output,
                       !.ours_alt_output = ours_alt_output,
                       !.theirs_alt_output = theirs_alt_output,
                       !.calls =
                       @ \o <<"git show ours", "git show theirs">>
                         \o (IF ours_alt_output = NotRun THEN <<>> ELSE <<"git show ours alt">>)
                         \o (IF theirs_alt_output = NotRun THEN <<>>
                             ELSE <<"git show theirs alt">>)]
          IN IF IsNone(ours_ciphertext) \/ IsNone(theirs_ciphertext) \/ ~temps_written
             THEN MergeEnd(0, s)
             ELSE /\ session' = [s EXCEPT !.ours_temp = ours_ciphertext,
                                          !.theirs_temp = theirs_ciphertext]
                  /\ pc' = "merge_decrypt" /\ exit' = exit /\ temp' = temp
    /\ UNCHANGED <<cache_file, cache_file0, nix_evals,
                   cache, disk, disk0, plainFile, plainFile0, stdout, cmd, recipients,
                   original_plaintext_data, plaintext_data, ciphertext_data,
                   files_to_rekey, idx, encLog>>

\* Faulty variant: only the theirs side is looked at.
only_theirs_is_empty(ours_plaintext, theirs_plaintext) == theirs_plaintext = <<>>

\* if ours_plaintext.is_empty() || theirs_plaintext.is_empty() { return; }
either_is_empty(ours_plaintext, theirs_plaintext) ==
    ours_plaintext = <<>> \/ theirs_plaintext = <<>>

MergeDecrypt ==
    /\ pc = "merge_decrypt"
    /\ LET ours == plaintext_from_ciphertext_source(session.ours_temp[1], Identities)
           theirs == plaintext_from_ciphertext_source(session.theirs_temp[1], Identities)
           s == [session EXCEPT !.ours_plaintext = ours.data,
                                !.theirs_plaintext = theirs.data,
                                !.calls = @ \o <<"decrypt ours", "decrypt theirs">>]
       IN IF ours.kind # "ok"
          THEN MergeEnd(ExitOf(ours), [session EXCEPT !.calls = Append(@, "decrypt ours")])
          ELSE IF theirs.kind # "ok"
          THEN MergeEnd(ExitOf(theirs),
                        [session EXCEPT !.ours_plaintext = ours.data,
                                        !.calls = @ \o <<"decrypt ours", "decrypt theirs">>])
          ELSE IF either_is_empty(ours.data, theirs.data)
          THEN MergeEnd(0, s)
          ELSE /\ session' = [s EXCEPT !.ours_plain_temp = <<ours.data>>,
                                       !.theirs_plain_temp = <<theirs.data>>,
                                       !.merged_temp = << <<>> >>]
               /\ pc' = "merge_auto" /\ exit' = exit /\ temp' = temp
    /\ UNCHANGED <<cache_file, cache_file0, nix_evals,
                   cache, disk, disk0, plainFile, plainFile0, stdout, cmd, recipients,
                   original_plaintext_data, plaintext_data, ciphertext_data,
                   files_to_rekey, idx, encLog>>

\* Faulty variant: the editor is opened on the conflict document whatever
\* git merge-file returned.
MergeAutoAlwaysEdits ==
    /\ pc = "merge_auto"
    /\ \E merge_result \in GitOutputs({session.theirs_plaintext}) :
          /\ session' = [session EXCEPT !.merge_result = merge_result,
                                        !.merged_temp =
                                 <<conflict_content(session.in_merge, session.ours_plaintext,
                                                    session.theirs_plaintext)>>,
                                        !.calls = Append(@, "git merge-file")]
          /\ pc' = "merge_editor"
    /\ UNCHANGED <<cache_file, cache_file0, nix_evals,
                   cache, disk, disk0, plainFile, plainFile0, stdout, cmd, recipients,
                   original_plaintext_data, plaintext_data, ciphertext_data, temp,
                   files_to_rekey, idx, exit, encLog>>

\* git merge-file -p ours ours theirs: with ours as the base a merge that
\* succeeds prints theirs.
MergeAuto ==
    /\ pc = "merge_auto"
    /\ \E merge_result \in GitOutputs({session.theirs_plaintext}) :
          IF merge_result.status = "ok"
          THEN /\ session' = [session EXCEPT !.merged_temp = merge_result.stdout,
                                             !.merge_result = merge_result,
                                             !.calls = Append(@, "git merge-file")]
               /\ pc' = "merge_verify"
          ELSE /\ session' = [session EXCEPT !.merge_result = merge_result,
                                             !.merged_temp =
                                 <<conflict_content(session.in_merge, session.ours_plaintext,
                                                    session.theirs_plaintext)>>,
                                             !.calls = Append(@, "git merge-file")]
               /\ pc' = "merge_editor"
    /\ UNCHANGED <<cache_file, cache_file0, nix_evals,
                   cache, disk, disk0, plainFile, plainFile0, stdout, cmd, recipients,
                   original_plaintext_data, plaintext_data, ciphertext_data, temp,
                   files_to_rekey, idx, exit, encLog>>

\* edit_file(merged_temp.path()).unwrap();
MergeEditor ==
    /\ pc = "merge_editor"
    /\ \E edited \in EditedTexts \cup {session.merged_temp[1], EditorFailed} :
          IF edited = EditorFailed
          THEN MergeEnd(101, [session EXCEPT !.calls = Append(@, "editor")])
          ELSE /\ session' = [session EXCEPT !.merged_temp = <<edited>>,
                                             !.calls = Append(@, "editor")]
               /\ pc' = "merge_verify" /\ exit' = exit /\ temp' = temp
    /\ UNCHANGED <<cache_file, cache_file0, nix_evals,
                   cache, disk, disk0, plainFile, plainFile0, stdout, cmd, recipients,
                   original_plaintext_data, plaintext_data, ciphertext_data,
                   files_to_rekey, idx, encLog>>

\* Faulty variant: a rejected result is handed back to the editor.
MergeVerifyReopens ==
    /\ pc = "merge_verify"
    /\ LET s == [session EXCEPT !.merged_plaintext = session.merged_temp[1]]
       IN /\ session' = s
          /\ pc' = IF merge_rejected(s.merged_plaintext) THEN "merge_editor"
                   ELSE "merge_report"
    /\ UNCHANGED <<cache_file, cache_file0, nix_evals,
                   cache, disk, disk0, plainFile, plainFile0, stdout, cmd, recipients,
                   original_plaintext_data, plaintext_data, ciphertext_data, temp,
                   files_to_rekey, idx, exit, encLog>>

MergeVerify ==
    /\ pc = "merge_verify"
    /\ LET s == [session EXCEPT !.merged_plaintext = session.merged_temp[1]]
       IN IF merge_rejected(s.merged_plaintext)
          THEN MergeEnd(0, s)
          ELSE session' = s /\ pc' = "merge_report" /\ exit' = exit /\ temp' = temp
    /\ UNCHANGED <<cache_file, cache_file0, nix_evals,
                   cache, disk, disk0, plainFile, plainFile0, stdout, cmd, recipients,
                   original_plaintext_data, plaintext_data, ciphertext_data,
                   files_to_rekey, idx, encLog>>

\* What a diff command of the summary comes to: Err, or Ok with its output.
DiffResults == { GitErr, GitOk(<<"d">>) }

\* Faulty variant: a diff that cannot be run ends the command.
MergeReportNeedsDiff ==
    /\ pc = "merge_report"
    /\ \E diff_result \in DiffResults, ours_to_final_diff \in DiffResults,
          theirs_to_final_diff \in DiffResults :
          LET s == [session EXCEPT
                       !.diffs = <<diff_result.status, ours_to_final_diff.status,
                                   theirs_to_final_diff.status>>,
                       !.calls = @ \o <<"diff", "diff", "diff">>]
          IN IF diff_result.status = "err"
             THEN MergeEnd(0, s)
             ELSE session' = s /\ pc' = "merge_write" /\ exit' = exit /\ temp' = temp
    /\ UNCHANGED <<cache_file, cache_file0, nix_evals,
                   cache, disk, disk0, plainFile, plainFile0, stdout, cmd, recipients,
                   original_plaintext_data, plaintext_data, ciphertext_data,
                   files_to_rekey, idx, encLog>>

\* eprintln!("=== MERGE SUMMARY ===") ... eprintln!("===================="): the
\* three diff commands run and what they return goes to standard error.
MergeReport ==
    /\ pc = "merge_report"
    /\ \E diff_result \in DiffResults, ours_to_final_diff \in DiffResults,
          theirs_to_final_diff \in DiffResults :
          session' = [session EXCEPT
                         !.diffs = <<diff_result.status, ours_to_final_diff.status,
                                     theirs_to_final_diff.status>>,
                         !.calls = @ \o <<"diff", "diff", "diff">>]
    /\ pc' = "merge_write"
    /\ UNCHANGED <<cache_file, cache_file0, nix_evals,
                   cache, disk, disk0, plainFile, plainFile0, stdout, cmd, recipients,
                   original_plaintext_data, plaintext_data, ciphertext_data, temp,
                   files_to_rekey, idx, exit, encLog>>

\* Faulty variant: the merged plaintext is encrypted to the local identity only.
MergeWriteToSelf ==
    /\ pc = "merge_write"
    /\ encLog' = Append(encLog, <<MineId>>)
    /\ ciphertext_data' = Age(session.merged_plaintext, {MineId})
    /\ disk' = [disk EXCEPT ![cmd.ciphertext] = Age(session.merged_plaintext, {MineId})]
    /\ MergeEnd(0, session)
    /\ UNCHANGED <<cache_file, cache_file0, nix_evals,
                   cache, disk0, plainFile, plainFile0, stdout, cmd, recipients,
                   original_plaintext_data, plaintext_data, files_to_rekey, idx>>

\* let merged_ciphertext = ciphertext_from_plaintext_buffer(&merged_plaintext, recipients);
\* std::fs::write(ciphertext, merged_ciphertext).unwrap();
MergeWrite ==
    /\ pc = "merge_write"
    /\ LET e == ciphertext_from_plaintext_buffer(session.merged_plaintext, recipients)
       IN /\ encLog' = Append(encLog, Keys(recipients))
          /\ IF e.panicked
             THEN MergeEnd(101, session) /\ UNCHANGED <<disk, ciphertext_data>>
             ELSE /\ ciphertext_data' = e.data
                  /\ disk' = [disk EXCEPT ![cmd.ciphertext] = e.data]
                  /\ MergeEnd(0, session)
    /\ UNCHANGED <<cache_file, cache_file0, nix_evals,
                   cache, disk0, plainFile, plainFile0, stdout, cmd, recipients,
                   original_plaintext_data, plaintext_data, files_to_rekey, idx>>

NextMerge ==
    \/ MergeStart
    \/ MergeDetect
    \/ MergeExtract
    \/ MergeDecrypt
    \/ MergeAuto
    \/ MergeEditor
    \/ MergeVerify
    \/ MergeReport
    \/ MergeWrite

\* The states a merge starts in: a working tree in which a path can be a
\* conflicted file, and trees that declare every path to the local identity,
\* one path without recipients, every path to another key only, or every path
\* with the home_manager dimension absent.
MergeDiskFiles == { Conflicted, Absent, Age(<<"a">>, {MineId}) }
MergeTrees ==
    { TreeFor([p \in Paths |-> "shared"], Some(<<>>)),
      TreeFor([p \in Paths |-> IF p = 1 THEN "bare" ELSE "shared"], Some(<<>>)),
      TreeFor([p \in Paths |-> "other"], Some(<<>>)),
      TreeFor([p \in Paths |-> "shared"], None) }

InitMerge ==
    /\ cache \in MergeTrees
    /\ disk \in [Paths -> MergeDiskFiles]
    /\ disk0 = disk
    /\ plainFile = <<>>
    /\ plainFile0 = plainFile
    /\ stdout = <<>>
    /\ pc = "main"
    /\ cmd = NoCmd
    /\ recipients = <<>>
    /\ original_plaintext_data = <<>>
    /\ plaintext_data = <<>>
    /\ ciphertext_data = Absent
    /\ temp = NoTemp
    /\ files_to_rekey = <<>>
    /\ idx = 0
    /\ exit = "none"
    /\ encLog = <<>>
    /\ cache_file = <<JsonDoc(cache, 0)>>
    /\ cache_file0 = cache_file
    /\ nix_evals = <<>>
    /\ session = NoSession

SpecMerge == InitMerge /\ [][NextMerge]_vars

\* A merge in which every collaborator that is called returns, so that the
\* command always takes its next step.
InitMergeFair ==
    /\ InitMerge
    /\ cache = TreeFor([p \in Paths |-> "shared"], Some(<<>>))
    /\ \A p \in Paths : disk[p] \in {Conflicted, Absent}
SpecMergeFair == InitMergeFair /\ [][NextMerge]_vars /\ WF_vars(NextMerge)

--------------------------------------------------------------------------
(* load_cache_file, generate_cache_file, Commands::Cache: main() from its *)
(* first line, with the command Cli::parse() returned                     *)

\* What running `nix eval --json .#lib.arcanum` comes to: it could not be
\* run, it exited with a failure status, it exited with success and stdout.
NixErr == [status |-> "err", stdout |-> InvalidDoc]
NixFailed == [status |-> "failed", stdout |-> InvalidDoc]
NixOk(doc) == [status |-> "ok", stdout |-> doc]

CacheTrees ==
    { TreeFor([p \in Paths |-> "shared"], Some(<<>>)),
      TreeFor([p \in Paths |-> IF p = 1 THEN "bare" ELSE "other"], None) }
Layouts == {0, 1}
Docs == { JsonDoc(t, l) : t \in CacheTrees, l \in Layouts } \cup { InvalidDoc, NonUtf8Doc }
NixResults == { NixErr, NixFailed } \cup { NixOk(d) : d \in Docs }

\* Faulty variant: the output of an evaluator that succeeded is written to the
\* cache before it is parsed.
generate_cache_file_writes_unparsed(result) ==
    IF result.status = "err" THEN [kind |-> "panic", written |-> None, val |-> NoTree]
    ELSE IF result.status = "failed" THEN [kind |-> "exit1", written |-> None, val |-> NoTree]
    ELSE IF result.stdout.kind # "json"
    THEN [kind |-> "panic", written |-> Some(result.stdout), val |-> NoTree]
    ELSE [kind |-> "ok", written |-> Some(result.stdout), val |-> result.stdout.tree]

\* Faulty variant: stdout is written to the cache before the status is looked at.
generate_cache_file_writes_first(result) ==
    IF result.status = "err" THEN [kind |-> "panic", written |-> None, val |-> NoTree]
    ELSE IF result.status = "failed"
    THEN [kind |-> "exit1", written |-> Some(result.stdout), val |-> NoTree]
    ELSE IF result.stdout.kind # "json"
    THEN [kind |-> "panic", written |-> Some(result.stdout), val |-> NoTree]
    ELSE [kind |-> "ok", written |-> Some(result.stdout), val |-> result.stdout.tree]

\* generate_cache_file, given what the evaluator did: how the call ends
\* ("ok", "exit1" for std::process::exit(1), "panic" for an unwrap on Err),
\* the bytes it wrote to the cache file if it wrote, the CacheFile returned.
generate_cache_file(result) ==
    IF result.status = "err" THEN [kind |-> "panic", written |-> None, val |-> NoTree]
    ELSE IF result.status = "failed" THEN [kind |-> "exit1", written |-> None, val |-> NoTree]
    ELSE IF result.stdout.kind = "nonutf8" THEN [kind |-> "panic", written |-> None, val |-> NoTree]
    ELSE IF result.stdout.kind = "invalid" THEN [kind |-> "panic", written |-> None, val |-> NoTree]
    ELSE [kind |-> "ok", written |-> Some(result.stdout), val |-> result.stdout.tree]

\* One call of generate_cache_file: the evaluator runs, the file is written
\* if the call gets that far, the process ends if the call does not return.
Generate(result, pc_after) ==
    LET g == generate_cache_file(result)
    IN /\ nix_evals' = Append(nix_evals, result)
       /\ cache_file' = IF IsNone(g.written) THEN cache_file ELSE g.written
       /\ IF g.kind = "ok"
          THEN /\ cache' = g.val
               /\ IF pc_after = "done"
                  THEN End(0)
                  ELSE pc' = pc_after /\ exit' = exit /\ temp' = temp
          ELSE End(ExitOf(g)) /\ cache' = cache

\* let cache: CacheFile = load_cache_file(&project_root, &cache_file_path);
LoadCacheFile ==
    /\ pc = "load"
    /\ IF cache_file # <<>>
       THEN /\ IF cache_file[1].kind = "json"
               THEN cache' = cache_file[1].tree /\ pc' = "main" /\ exit' = exit /\ temp' = temp
               ELSE End(101) /\ cache' = cache
            /\ UNCHANGED <<cache_file, nix_evals>>
       ELSE \E result \in NixResults : Generate(result, "main")
    /\ UNCHANGED <<cache_file0, session, disk, disk0, plainFile, plainFile0, stdout, cmd,
                   recipients, original_plaintext_data, plaintext_data, ciphertext_data,
                   files_to_rekey, idx, encLog>>

\* Commands::Cache => { generate_cache_file(&project_root, &cache_file_path); }
CacheCommand ==
    /\ pc = "main"
    /\ cmd' = [op |-> "cache", ciphertext |-> 0, plaintext |-> "none"]
    /\ \E result \in NixResults : Generate(result, "done")
    /\ UNCHANGED <<cache_file0, session, disk, disk0, plainFile, plainFile0, stdout,
                   recipients, original_plaintext_data, plaintext_data, ciphertext_data,
                   files_to_rekey, idx, encLog>>

\* match &cli.command { ... }: the arm of the command that was parsed runs.
Dispatch == (Next \/ NextMerge) /\ cmd' = cmd

NextCache ==
    \/ LoadCacheFile
    \/ CacheCommand /\ cmd' = cmd
    \/ Dispatch

\* enum Commands, with the paths of the model
AllCommands ==
    { [op |-> o, ciphertext |-> c, plaintext |-> p] :
        o \in {"encrypt", "decrypt"}, c \in Paths, p \in {"-", "file"} }
    \cup { [op |-> o, ciphertext |-> c, plaintext |-> "none"] :
             o \in {"edit", "rekey", "merge"}, c \in Paths }
    \cup { [op |-> o, ciphertext |-> 0, plaintext |-> "none"] : o \in {"rekey_all", "cache"} }

CacheDiskFiles == { Absent, Conflicted, Age(<<"a">>, {MineId}) }

InitCache ==
    /\ cache = NoTree
    /\ cache_file \in {<<>>} \cup { <<d>> : d \in Docs }
    /\ cache_file0 = cache_file
    /\ nix_evals = <<>>
    /\ cmd \in AllCommands
    /\ disk \in [Paths -> CacheDiskFiles]
    /\ disk0 = disk
    /\ plainFile \in PlainFiles
    /\ plainFile0 = plainFile
    /\ stdout = <<>>
    /\ pc = "load"
    /\ recipients = <<>>
    /\ original_plaintext_data = <<>>
    /\ plaintext_data = <<>>
    /\ ciphertext_data = Absent
    /\ temp = NoTemp
    /\ files_to_rekey = <<>>
    /\ idx = 0
    /\ exit = "none"
    /\ encLog = <<>>
    /\ session = NoSession

SpecCache == InitCache /\ [][NextCache]_vars

--------------------------------------------------------------------------
(* What the specification says resolution returns, stated on sets *)

\* Every scope of the dimensions that are present.
ScopesOf(T) ==
    (IF IsNone(T.flake) THEN {} ELSE {Unwrap(T.flake)})
    \cup (IF IsNone(T.nixos) THEN {} ELSE Range(Unwrap(T.nixos)))
    \cup (IF IsNone(T.home_manager) THEN {}
          ELSE UNION { Range(inner) : inner \in Range(Unwrap(T.home_manager)) })
    \cup (IF IsNone(T.dev_shells) THEN {}
          ELSE UNION { Range(inner) : inner \in Range(Unwrap(T.dev_shells)) })

\* The scopes that hold a file entry whose source is p.
Referencing(T, p) == { s \in ScopesOf(T) : \E i \in 1..Len(s.files) : s.files[i].source = p }

\* Recipients of the entries with source p, and the admins of their scopes.
UnionFor(T, p) ==
    UNION { Range(s.admin_recipients)
            \cup UNION { Range(s.files[i].recipients) :
                         i \in {j \in 1..Len(s.files) : s.files[j].source = p} } :
            s \in Referencing(T, p) }

\* The strictly increasing sequence of the elements of S.
SortedSeq(S) ==
    CHOOSE q \in [1..Cardinality(S) -> S] :
        \A i, j \in 1..Cardinality(S) : i < j => StrLess(q[i], q[j])

SomeDimensionAbsent(T) ==
    IsNone(T.flake) \/ IsNone(T.nixos) \/ IsNone(T.home_manager) \/ IsNone(T.dev_shells)

--------------------------------------------------------------------------
(* Claims about recipient resolution, under SpecResolve *)

\* C1: for every tree and every path, once the call has been made it has
\* returned exactly the sorted duplicate-free union of the recipients of the
\* entries with that source and of the admin recipients of their scopes.
C1_ResolutionUnion ==
    pc # "resolve" =>
        /\ pc = "resolved"
        /\ Keys(recipients) = SortedSeq(UnionFor(cache, cmd.ciphertext))

\* C1, on the trees in which all four dimensions are present: the call
\* returns, and returns that union (the part of C1 the code does keep).
C1_UnionWhenAllPresent ==
    (pc # "resolve" /\ ~SomeDimensionAbsent(cache)) =>
        /\ pc = "resolved"
        /\ Keys(recipients) = SortedSeq(UnionFor(cache, cmd.ciphertext))

\* C2: for a path that no entry of any scope has as its source, the call
\* returns the empty set.
C2_UnknownPathEmpty ==
    (pc # "resolve" /\ Referencing(cache, cmd.ciphertext) = {}) =>
        (pc = "resolved" /\ recipients = <<>>)

\* C3: with a dimension absent the call completes normally and returns the
\* union over the dimensions that are present.
C3_AbsentDimensionTolerated ==
    (pc # "resolve" /\ SomeDimensionAbsent(cache)) =>
        /\ pc = "resolved"
        /\ exit = "none"
        /\ Keys(recipients) = SortedSeq(UnionFor(cache, cmd.ciphertext))

--------------------------------------------------------------------------
(* Claims about the lifecycle commands, under Spec *)

Target == cmd.ciphertext
OthersUntouched == \A p \in Paths : p # Target => disk[p] = disk0[p]

\* What resolution returns for p in this run, when it returns.
ResolvesEmpty(p) ==
    LET r == recipients_for_file(cache, p) IN ~r.panicked /\ r.val = <<>>
ResolvesTo(p) == Range(Keys(recipients_for_file(cache, p).val))

\* C4: no command hands the Cipher Service an empty recipient set, and a
\* command whose target resolves to no recipient leaves the target's file as
\* it was.
C4_NeverEncryptsToNobody ==
    /\ \A i \in 1..Len(encLog) : encLog[i] # <<>>
    /\ (cmd.op \in {"encrypt", "edit", "rekey"} /\ ResolvesEmpty(Target)) =>
           disk[Target] = disk0[Target]
    /\ cmd.op = "rekey_all" =>
           \A p \in Paths : ResolvesEmpty(p) => disk[p] = disk0[p]

\* C5: in Edit, when the bytes read back from the editor equal the bytes
\* decrypted at the start, nothing is encrypted and no ciphertext file is
\* written.
C5_UnchangedEditWritesNothing ==
    (cmd.op = "edit" /\ plaintext_data = original_plaintext_data) =>
        (disk = disk0 /\ encLog = <<>>)

C5_Witness ==
    /\ cmd.op = "edit"
    /\ pc = "done"
    /\ exit = 0
    /\ original_plaintext_data # <<>>
    /\ plaintext_data = original_plaintext_data
    /\ disk0[Target].kind = "age"

\* C6: in Edit the ciphertext file changes only by the final write, after
\* the new ciphertext was decrypted again, so the file then holds a
\* ciphertext the local identities decrypt; when the new ciphertext cannot be
\* decrypted the process ends with a failure status and every file is as it
\* was.
C6_EditWritesOnlyVerified ==
    cmd.op = "edit" =>
        /\ disk # disk0 =>
              /\ pc = "done"
              /\ exit = 0
              /\ disk[Target] = ciphertext_data
              /\ CanDecrypt(disk[Target], Identities)
              /\ OthersUntouched
        /\ (pc \in {"edit_write", "done"} /\ ciphertext_data.kind = "age"
              /\ ~CanDecrypt(ciphertext_data, Identities)) =>
              /\ pc = "done"
              /\ exit # 0
              /\ disk = disk0

C6_Witness ==
    /\ cmd.op = "edit"
    /\ pc = "done"
    /\ exit = 1
    /\ ciphertext_data.kind = "age"
    /\ ~CanDecrypt(ciphertext_data, Identities)
    /\ disk0[Target].kind = "age"
    /\ disk = disk0

\* C7: Decrypt to a file writes the destination only with a non-empty
\* decrypted plaintext; with the ciphertext missing or an empty plaintext
\* the destination is neither created nor changed.
C7_DecryptWritesOnlyNonEmpty ==
    (cmd.op = "decrypt" /\ cmd.plaintext = "file") =>
        /\ plainFile # plainFile0 =>
              /\ CanDecrypt(disk0[Target], Identities)
              /\ disk0[Target].pt # <<>>
              /\ plainFile = <<disk0[Target].pt>>
        /\ (pc = "done" /\ (disk0[Target].kind = "absent" \/ disk0[Target].pt = <<>>)) =>
              plainFile = plainFile0

C7_Witness ==
    /\ cmd.op = "decrypt"
    /\ cmd.plaintext = "file"
    /\ pc = "done"
    /\ exit = 0
    /\ CanDecrypt(disk0[Target], Identities)
    /\ disk0[Target].pt = <<>>
    /\ plainFile0 # <<>>
    /\ plainFile = plainFile0

\* C8: Decrypt of a ciphertext that exists and that no local identity
\* decrypts ends with a non-zero status and writes nothing; Decrypt of a
\* missing ciphertext writes nothing and ends with status 0.
C8_DecryptOutcomes ==
    (cmd.op = "decrypt" /\ pc = "done") =>
        /\ (disk0[Target].kind = "age" /\ ~CanDecrypt(disk0[Target], Identities)) =>
              (exit = 1 /\ plainFile = plainFile0 /\ stdout = <<>>)
        /\ disk0[Target].kind = "absent" =>
              (exit = 0 /\ plainFile = plainFile0 /\ stdout = <<>>)

C8_Witness ==
    /\ cmd.op = "decrypt"
    /\ pc = "done"
    /\ disk0[Target].kind = "age"
    /\ ~CanDecrypt(disk0[Target], Identities)
    /\ exit = 1
    /\ plainFile0 # <<>>

\* The files a rekey-all run is about: declared by some entry, and on disk.
Enumerated == { p \in Paths : Referencing(cache, p) # {} /\ disk0[p].kind # "absent" }

\* C9: a rekey-all run in which exactly one enumerated file resolves to no
\* recipient, the others resolve to some, and all are decryptable, ends with
\* that file as it was and every other enumerated file re-encrypted, same
\* plaintext, to the recipients resolved for it.
C9_RekeyAllSkipsOnlyTheFailing ==
    (/\ cmd.op = "rekey_all"
     /\ pc = "done"
     /\ Cardinality({p \in Enumerated : ResolvesEmpty(p)}) = 1
     /\ \A p \in Enumerated :
           /\ ~recipients_for_file(cache, p).panicked
           /\ CanDecrypt(disk0[p], Identities)) =>
        \A p \in Paths :
            disk[p] = IF p \in Enumerated /\ ~ResolvesEmpty(p)
                      THEN Age(disk0[p].pt, ResolvesTo(p))
                      ELSE disk0[p]

C9_Witness ==
    /\ cmd.op = "rekey_all"
    /\ pc = "done"
    /\ Cardinality(Enumerated) >= 2
    /\ Cardinality({p \in Enumerated : ResolvesEmpty(p)}) = 1
    /\ ResolvesEmpty(files_to_rekey[1])
    /\ \A p \in Enumerated :
          /\ ~recipients_for_file(cache, p).panicked
          /\ CanDecrypt(disk0[p], Identities)
    /\ \E p \in Enumerated : disk[p] # disk0[p]

\* C10: a rekey-all run that skipped a file for want of recipients ends with
\* a non-zero exit status.
C10_SkipReflectedInExit ==
    (/\ cmd.op = "rekey_all"
     /\ pc = "done"
     /\ \E i \in 1..Len(files_to_rekey) : i < idx /\ ResolvesEmpty(files_to_rekey[i])) =>
        exit # 0

--------------------------------------------------------------------------
(* Rekey: what a successful run leaves, and what a retry makes of it *)

\* The file a rekey of p makes of the file f: the code's decryption followed
\* by the code's encryption to the recipients resolved for p.
RekeyedAgain(f, p) ==
    LET out == plaintext_from_ciphertext_source(f, Identities)
    IN ciphertext_from_plaintext_buffer(out.data, recipients_for_file(cache, p).val).data

\* The paths a run has rekeyed so far: the target of a single-file rekey that
\* returned, the files the rekey-all loop is past and did not skip.
Rekeyed ==
    IF cmd.op = "rekey"
    THEN {p \in {Target} : pc = "done" /\ exit = 0}
    ELSE IF cmd.op = "rekey_all"
    THEN {files_to_rekey[i] : i \in {j \in 1..Len(files_to_rekey) :
                                       j < idx /\ ~ResolvesEmpty(files_to_rekey[j])}}
    ELSE {}

\* C11: a path whose ciphertext existed and was rekeyed holds the plaintext
\* it held before, encrypted to exactly the recipients resolved for the path;
\* a retry that can decrypt the new file writes the same plaintext for the
\* same recipients again.
C11_RekeyKeepsPlaintext ==
    \A p \in Rekeyed :
        disk0[p].kind # "absent" =>
            /\ disk[p] = Age(disk0[p].pt, ResolvesTo(p))
            /\ CanDecrypt(disk[p], Identities) => RekeyedAgain(disk[p], p) = disk[p]

C11_Witness ==
    /\ cmd.op = "rekey_all"
    /\ pc = "done"
    /\ exit = 0
    /\ \E p \in Rekeyed :
          /\ disk0[p].pt # <<>>
          /\ disk[p] # disk0[p]
          /\ CanDecrypt(disk[p], Identities)
          /\ RekeyedAgain(disk[p], p) = disk[p]

\* C20: in a rekey-all run a file that no local identity decrypts does not
\* stop the batch: once the process has ended, every other enumerated file
\* that decrypts and has recipients has been rekeyed.
C20_UndecryptableFileDoesNotStopBatch ==
    (/\ cmd.op = "rekey_all"
     /\ pc = "done"
     /\ ~SomeDimensionAbsent(cache)
     /\ \E p \in Enumerated : disk0[p].kind = "age" /\ ~CanDecrypt(disk0[p], Identities)) =>
        \A q \in Enumerated :
            (CanDecrypt(disk0[q], Identities) /\ ~ResolvesEmpty(q)) =>
                disk[q] = Age(disk0[q].pt, ResolvesTo(q))

--------------------------------------------------------------------------
(* Claims about Merge, under SpecMerge *)

\* The newline that ends a side that does not end with one.
NewlineUnlessTerminated(side) ==
    IF side # <<>> /\ side[Len(side)] = "\n" THEN <<>> ELSE <<"\n">>

\* The five parts of the document, around the two sides as given.
ExpectedDocument(ours, theirs, ours_end, theirs_end) ==
    <<OpenMarker, OursLabel(session.in_merge), "\n">>
    \o ours \o ours_end
    \o <<Separator, "\n">>
    \o theirs \o theirs_end
    \o <<CloseMarker, TheirsLabel(session.in_merge), "\n">>

\* C12 as stated: the document handed to the editor is the opening line, the
\* ours plaintext (then a newline only if it lacks one), the separator line,
\* the theirs plaintext (then a newline only if it lacks one), the closing
\* line.
C12_ConflictDocument ==
    pc = "merge_editor" =>
        session.merged_temp[1] =
            ExpectedDocument(session.ours_plaintext, session.theirs_plaintext,
                             NewlineUnlessTerminated(session.ours_plaintext),
                             NewlineUnlessTerminated(session.theirs_plaintext))

\* C12 as amended: the two sides appear decoded as UTF-8, every invalid byte
\* replaced by U+FFFD; for ours = "a\nb\n" and theirs = "a\nc\n" the document
\* is the seven lines of the scenario and no blank line.
C12_ConflictDocumentDecoded ==
    pc = "merge_editor" =>
        /\ session.merged_temp[1] =
              ExpectedDocument(from_utf8_lossy(session.ours_plaintext),
                               from_utf8_lossy(session.theirs_plaintext),
                               NewlineUnlessTerminated(session.ours_plaintext),
                               NewlineUnlessTerminated(session.theirs_plaintext))
        /\ (/\ session.ours_plaintext = <<"a", "\n", "b", "\n">>
            /\ session.theirs_plaintext = <<"a", "\n", "c", "\n">>
            /\ session.in_merge) =>
              session.merged_temp[1] =
                  <<OpenMarker, "HEAD (ours)", "\n", "a", "\n", "b", "\n",
                    Separator, "\n", "a", "\n", "c", "\n",
                    CloseMarker, "MERGE_HEAD (theirs)", "\n">>

C12_Witness ==
    /\ cmd.op = "merge"
    /\ pc = "merge_editor"
    /\ session.ours_plaintext = <<"k">>
    /\ session.theirs_plaintext = <<"0xFF">>
    /\ ~session.in_merge

\* A marker of one of the three kinds the conflict document is made with.
HasResidualMarker(text) ==
    \E m \in {OpenMarker, Separator, CloseMarker} : m \in Range(text)

\* C13: Merge writes the conflicted file only with a final content that is
\* not empty and has no opening, separator or closing marker left; otherwise
\* the file is as it was.
C13_MergeWritesOnlyClean ==
    (cmd.op = "merge" /\ disk # disk0) =>
        /\ session.merged_plaintext # <<>>
        /\ ~HasResidualMarker(session.merged_plaintext)

\* C14: a merge run encrypts and writes at most once, as its last step and
\* after the code's verification let the content through; the file then
\* holds that content encrypted to the recipients resolved at the start of
\* the run, and no other file changed; a run that ended any other way wrote
\* nothing.
C14_MergeWritesOnceAtTheEnd ==
    cmd.op = "merge" =>
        /\ Len(encLog) <= 1
        /\ disk # disk0 =>
              /\ pc = "done"
              /\ exit = 0
              /\ Len(encLog) = 1
              /\ session.merged_plaintext # <<>>
              /\ OpenMarker \notin Range(session.merged_plaintext)
              /\ CloseMarker \notin Range(session.merged_plaintext)
              /\ Range(Keys(recipients)) = ResolvesTo(Target)
              /\ disk[Target] = Age(session.merged_plaintext, ResolvesTo(Target))
              /\ OthersUntouched
        /\ (pc = "done" /\ exit # 0) => disk = disk0
        /\ (pc # "done" \/ encLog = <<>>) => disk = disk0

C14_Witness ==
    /\ cmd.op = "merge"
    /\ pc = "done"
    /\ exit = 0
    /\ disk0[Target] = Conflicted
    /\ session.in_rebase
    /\ disk[Target] = Age(<<"a", "\n", "c", "\n">>, {MineId, "age1def"})

\* C15: a merge run that found a merge or a rebase in progress ends with
\* exit status 0 only if it wrote the merged ciphertext; every abort after
\* that point (extraction, empty plaintext, empty merged content, residual
\* markers) ends with a non-zero status.
C15_AbortedMergeExitsNonZero ==
    (/\ cmd.op = "merge"
     /\ pc = "done"
     /\ session.in_merge \/ session.in_rebase
     /\ exit = 0) =>
        disk # disk0

--------------------------------------------------------------------------
(* Claims about the cache file and the evaluator, under SpecCache *)

\* The evaluator's output that a run persisted last.
LastPersisted ==
    LET ok == {i \in 1..Len(nix_evals) :
                  nix_evals[i].status = "ok" /\ nix_evals[i].stdout.kind = "json"}
    IN <<nix_evals[CHOOSE i \in ok : \A j \in ok : j <= i].stdout>>

\* The three parts of C16, for a run that has ended.
EvaluatorRunsOnlyWhenAsked ==
    /\ nix_evals # <<>> <=> (cache_file0 = <<>> \/ cmd.op = "cache")
    /\ (cmd.op # "cache" /\ cache_file0 # <<>>) =>
           (nix_evals = <<>> /\ cache_file = cache_file0)
    /\ cache_file # cache_file0 => cache_file = LastPersisted

\* C16: the evaluator runs in a process if and only if the cache file was
\* absent or the command is `cache`; any other command with a cache file
\* present neither runs it nor writes the cache file; what a run persists is
\* the evaluator's output, byte for byte.
C16_EvaluatorOnlyWhenNeeded ==
    pc = "done" => EvaluatorRunsOnlyWhenAsked

\* C16, for the runs in which the cache file is absent or deserializes: the
\* part of C16 the code keeps.
C16_WhenCacheFileReadable ==
    (pc = "done" /\ (cache_file0 = <<>> \/ cache_file0[1].kind = "json")) =>
        EvaluatorRunsOnlyWhenAsked

\* C17: a `cache` run in which the evaluator does not fail runs it exactly
\* once and ends with the cache file holding its output, whatever the cache
\* file was before (absent, valid, not deserializable).
C17_CacheCommandRegeneratesOnce ==
    (/\ cmd.op = "cache"
     /\ pc = "done"
     /\ \A i \in 1..Len(nix_evals) :
           nix_evals[i].status = "ok" /\ nix_evals[i].stdout.kind = "json") =>
        /\ Len(nix_evals) = 1
        /\ cache_file = <<nix_evals[1].stdout>>

\* The evaluator's last run ended with a failure status.
EvaluatorFailed ==
    nix_evals # <<>> /\ nix_evals[Len(nix_evals)].status = "failed"

\* C18: the step in which the evaluator fails leaves the cache file as it
\* was, and from then on the process has ended with status 1 and no
\* plaintext, ciphertext or output was written by it.
C18_EvaluatorFailureIsFatal ==
    /\ [](EvaluatorFailed =>
            /\ pc = "done"
            /\ exit = 1
            /\ disk = disk0
            /\ plainFile = plainFile0
            /\ stdout = <<>>
            /\ encLog = <<>>)
    /\ [][(nix_evals' # nix_evals /\ nix_evals'[Len(nix_evals')].status = "failed")
             => cache_file' = cache_file]_vars

C18_Witness ==
    /\ EvaluatorFailed
    /\ cmd.op = "encrypt"
    /\ cache_file0 = <<>>
    /\ plainFile0 # <<>>
    /\ pc = "done"

--------------------------------------------------------------------------
(* Temporary plaintext files of Edit and Merge *)

\* The temp files that hold plaintext and exist: t of Edit; ours_plain_temp,
\* theirs_plain_temp and merged_temp of Merge.
PlaintextTempFiles ==
    { f \in {"t"} : temp.t # <<>> }
    \cup { f \in {"ours_plain_temp", "theirs_plain_temp", "merged_temp"} : session[f] # <<>> }

\* C19: once an Edit or a Merge process has ended, however it ended, no
\* temporary file holding plaintext that it created exists.
C19_NoPlaintextTempLeft ==
    (cmd.op \in {"edit", "merge"} /\ pc = "done") => PlaintextTempFiles = {}

--------------------------------------------------------------------------
(* Rekey of a path without a ciphertext file, under Spec *)

\* C21: a single-file rekey of a path at which no ciphertext file exists
\* writes nothing: no file exists at the path afterwards.
C21_RekeyOfMissingFileWritesNothing ==
    (cmd.op = "rekey" /\ disk0[Target].kind = "absent") =>
        (disk[Target].kind = "absent" /\ disk = disk0)

(* The stages of Merge, under SpecMerge *)
\* How many times a collaborator was called in the run.
Called(name) == Cardinality({ i \in DOMAIN session.calls : session.calls[i] = name })
Detected == Called("exists .git state") = 1
Extracted == Called("git show ours") = 1
MergeCollaborators ==
    { "git show ours", "git show theirs", "git show ours alt", "git show theirs alt",
      "decrypt ours", "decrypt theirs", "git merge-file", "editor", "diff" }

\* C22: when the merge command finds neither a merge nor a rebase in progress
\* the run ends there: no git show was issued, nothing was decrypted, no
\* editor was opened and the working tree is as it was.
C22_NoConflictStateAborts ==
    (cmd.op = "merge" /\ Detected /\ ~session.in_merge /\ ~session.in_rebase) =>
        /\ pc = "done"
        /\ \A c \in MergeCollaborators : Called(c) = 0
        /\ disk = disk0
        /\ encLog = <<>>

C22_Witness ==
    /\ cmd.op = "merge" /\ Detected /\ ~session.in_merge /\ ~session.in_rebase
    /\ pc = "done"
    /\ HasConflictMarkers(disk[Target])

\* What extraction does for one side, with the number of alternative queries
\* that may have been issued for it.
SideExtracted(primary, alt, alt_calls, temp_file, allowed) ==
    /\ alt_calls \in allowed
    /\ alt.status = "none" <=> alt_calls = 0
    /\ primary.status = "ok" =>
          /\ alt_calls = 0
          /\ temp_file # <<>> => temp_file = primary.stdout
    /\ primary.status # "ok" =>
          /\ alt.status = "ok" /\ temp_file # <<>> => temp_file = alt.stdout
          /\ alt.status # "ok" => temp_file = <<>>

\* C23 as stated: on each side a primary query that succeeds is used and no
\* alternative query is issued; a primary query that fails is followed by
\* exactly one alternative query, which is used when it succeeds.
C23_OneFallbackPerFailedPrimary ==
    Extracted =>
        /\ SideExtracted(session.ours_output, session.ours_alt_output,
                         Called("git show ours alt"), session.ours_temp,
                         IF session.ours_output.status = "ok" THEN {0} ELSE {1})
        /\ SideExtracted(session.theirs_output, session.theirs_alt_output,
                         Called("git show theirs alt"), session.theirs_temp,
                         IF session.theirs_output.status = "ok" THEN {0} ELSE {1})

\* C23, amended: as stated, except that in a rebase the theirs side has no
\* alternative query when the commit being applied cannot be read; then none
\* is issued.
C23_OneFallbackWhereAvailable ==
    Extracted =>
        /\ SideExtracted(session.ours_output, session.ours_alt_output,
                         Called("git show ours alt"), session.ours_temp,
                         IF session.ours_output.status = "ok" THEN {0} ELSE {1})
        /\ SideExtracted(session.theirs_output, session.theirs_alt_output,
                         Called("git show theirs alt"), session.theirs_temp,
                         IF session.theirs_output.status = "ok" THEN {0}
                         ELSE IF session.in_merge THEN {1} ELSE {0, 1})

C23_Witness ==
    /\ pc = "merge_decrypt"
    /\ session.ours_output.status = "ok" /\ Called("git show ours alt") = 0
    /\ session.ours_temp = session.ours_output.stdout
    /\ session.theirs_output.status # "ok" /\ Called("git show theirs alt") = 1
    /\ session.theirs_temp = session.theirs_alt_output.stdout

\* A side for which no query returned the file.
SideFailed(primary, alt) == primary.status # "ok" /\ alt.status # "ok"

\* C24: when a side is returned by neither its primary nor its alternative
\* query the run ends before anything is decrypted, merged, edited or written;
\* and the bytes taken for a side always come from a query for that side.
C24_ExtractionFailureAborts ==
    /\ (Extracted /\ (\/ SideFailed(session.ours_output, session.ours_alt_output)
                      \/ SideFailed(session.theirs_output, session.theirs_alt_output))) =>
          /\ pc = "done"
          /\ \A c \in {"decrypt ours", "decrypt theirs", "git merge-file", "editor", "diff"} :
                Called(c) = 0
          /\ disk = disk0
          /\ encLog = <<>>
    /\ session.ours_temp # <<>> =>
          session.ours_temp \in {session.ours_output.stdout, session.ours_alt_output.stdout}
    /\ session.theirs_temp # <<>> =>
          session.theirs_temp \in
              {session.theirs_output.stdout, session.theirs_alt_output.stdout}

C24_Witness ==
    /\ Extracted /\ pc = "done"
    /\ session.ours_output.status = "ok"
    /\ SideFailed(session.theirs_output, session.theirs_alt_output)
    /\ session.theirs_alt_output.status = "failed"

C26_EditorIffAutoMergeFailed ==
    /\ Called("editor") <= 1
    /\ Called("editor") = 1 => session.merge_result.status \in {"err", "failed"}
    /\ (session.merge_result.status \in {"err", "failed"} /\ pc # "merge_editor") =>
          Called("editor") = 1
    /\ session.merge_result.status = "ok" =>
          /\ Called("editor") = 0
          /\ pc = "merge_verify" => session.merged_temp = session.merge_result.stdout
          /\ pc \in {"merge_report", "merge_write"} =>
                session.merged_plaintext = session.merge_result.stdout[1]
    /\ pc \in {"merge_report", "merge_write"} =>
          session.merged_plaintext = session.merged_temp[1]

C26_Witness ==
    /\ pc = "merge_report"
    /\ session.merge_result.status = "failed"
    /\ Called("editor") = 1
    /\ session.merged_plaintext = <<"a", "\n", "c", "\n">>

\* C27: whatever the three diff commands of the summary return, the file is
\* then written, and what is written is the verified plaintext encrypted to
\* the recipients resolved at the start.
C27_ReportingDoesNotDecide ==
    (cmd.op = "merge" /\ session.diffs # <<>>) =>
        LET e == ciphertext_from_plaintext_buffer(session.merged_plaintext, recipients)
        IN /\ pc \in {"merge_write", "done"}
           /\ pc = "merge_write" => (disk = disk0 /\ encLog = <<>>)
           /\ pc = "done" =>
                 /\ encLog = <<Keys(recipients)>>
                 /\ disk = IF e.panicked THEN disk0
                           ELSE [disk0 EXCEPT ![Target] = e.data]

C27_Witness ==
    /\ pc = "done" /\ exit = 0
    /\ session.diffs = <<"err", "err", "err">>
    /\ disk[Target].kind = "age"
    /\ disk[Target].pt = session.merged_plaintext

(* The order of the stages of Merge, under SpecMergeFair *)
\* Idle, Detecting, Extracting, Decrypting, AutoMerging, ManualEditing,
\* Verifying, Reporting, the final write, and the end of the process.
MergeStage(p) ==
    CASE p = "main" -> 0
      [] p = "merge_detect" -> 1
      [] p = "merge_extract" -> 2
      [] p = "merge_decrypt" -> 3
      [] p = "merge_auto" -> 4
      [] p = "merge_editor" -> 5
      [] p = "merge_verify" -> 6
      [] p = "merge_report" -> 7
      [] p = "merge_write" -> 8
      [] OTHER -> 9
MergeDone == pc = "done" /\ cmd.op = "merge" /\ disk[Target] = ciphertext_data
                /\ ciphertext_data # Absent
MergeAborted == pc = "done" /\ ~MergeDone

\* C28: every step of a merge moves to a later stage; the run that ends with
\* the file written has passed verification and the summary; and when every
\* collaborator returns the run ends, either written (Done) or not (Aborted).
C28_ForwardOnlyAndTerminates ==
    /\ [][MergeStage(pc') > MergeStage(pc)]_vars
    /\ [](MergeDone => (/\ ~merge_rejected(session.merged_plaintext)
                         /\ session.merged_plaintext = disk[Target].pt
                         /\ session.diffs # <<>>))
    /\ <>(MergeDone \/ MergeAborted)

C28_Witness ==
    /\ MergeDone
    /\ Called("editor") = 1
    /\ session.calls[Len(session.calls)] = "diff"

(* The work list of a rekey-all run, under Spec *)
\* The entries of the work list the loop has not gone through yet.
NotYetProcessed ==
    { files_to_rekey[i] : i \in { j \in 1..Len(files_to_rekey) :
                                    j > idx \/ (j = idx /\ pc = "rekey_loop") } }

\* C29: in a rekey-all run the work list holds each path that some entry of
\* the tree declares and that exists on disk exactly once, in ascending order;
\* the loop takes the entries one at a time in that order, each step touching
\* only the file it is at; a run that returns has gone through every entry,
\* encrypting each file with recipients once; without such a path nothing is
\* written.
C29_EachDeclaredFileOnceInOrder ==
    /\ [](cmd.op = "rekey_all" =>
            /\ \A i, j \in 1..Len(files_to_rekey) :
                  i < j => files_to_rekey[i] < files_to_rekey[j]
            /\ Range(files_to_rekey) = Enumerated
            /\ \A p \in Paths :
                  (p \notin Enumerated \/ p \in NotYetProcessed) => disk[p] = disk0[p]
            /\ (pc = "done" /\ exit = 0) =>
                  /\ NotYetProcessed = {}
                  /\ Len(encLog) = Cardinality({p \in Enumerated : ~ResolvesEmpty(p)})
                  /\ \A p \in Enumerated :
                        disk[p] = IF ResolvesEmpty(p) THEN disk0[p]
                                  ELSE Age(disk0[p].pt, ResolvesTo(p))
            /\ Enumerated = {} => (pc = "done" /\ disk = disk0 /\ encLog = <<>>))
    /\ [][(cmd.op = "rekey_all" /\ pc = "rekey_loop") =>
            /\ idx' \in {idx, idx + 1}
            /\ pc' = "rekey_loop" => idx' = idx + 1
            /\ \A p \in Paths : p # files_to_rekey[idx] => disk'[p] = disk[p]]_vars

C29_Witness ==
    /\ cmd.op = "rekey_all" /\ pc = "done" /\ exit = 0
    /\ Len(files_to_rekey) = NPaths
    /\ \E p \in Enumerated : Cardinality(Referencing(cache, p)) >= 2
    /\ \A p \in Paths : disk[p] # disk0[p]

(* The cache file across invocations, under SpecCache *)
\* What load_cache_file accepts: no file (it regenerates), or a file that
\* deserializes.
Loadable(file) == file = <<>> \/ file[1].kind = "json"

\* C30: an invocation that starts with the cache file absent or deserializable
\* leaves it absent or deserializable at every moment, so that from an absent
\* file every sequence of invocations keeps it so; and a step that changes the
\* file writes a document that parsed, the one the evaluator just printed.
C30_CacheFileStaysLoadable ==
    /\ [](Loadable(cache_file0) => Loadable(cache_file))
    /\ [][cache_file' # cache_file =>
            /\ cache_file' # <<>>
            /\ cache_file'[1].kind = "json"
            /\ nix_evals'[Len(nix_evals')] = NixOk(cache_file'[1])
            /\ cache' = cache_file'[1].tree]_vars

C30_Witness ==
    /\ cache_file0 = <<>>
    /\ cmd.op = "cache"
    /\ Len(nix_evals) = 2
    /\ nix_evals[1].status = "ok" /\ nix_evals[1].stdout.kind = "json"
    /\ nix_evals[2].status = "ok" /\ nix_evals[2].stdout.kind = "invalid"
    /\ pc = "done" /\ exit = 101
    /\ cache_file = <<nix_evals[1].stdout>>

====
